---- MODULE Spec2Model ----
(***************************************************************************)
(* A model of shtola (src/shtola/src/lib.rs), its middleware chain ware    *)
(* (src/ware/src/lib.rs), the front matter lexer and the plugins that      *)
(* appear in the tests, the doc examples and shtola-markdown.              *)
(*                                                                         *)
(* Texts are sequences of tokens: Marker stands for the line "---\n", Ws   *)
(* for whitespace, every other token for a run of non-blank characters.    *)
(* A file-state mapping (im::HashMap<PathBuf, ShFile>) is a function whose *)
(* DOMAIN is the set of its keys.  The source and the destination          *)
(* directory are distinct directories; paths are relative and normalised.  *)
(***************************************************************************)
EXTENDS Integers, Sequences, FiniteSets, TLC

\* ------------------------------------------------------------------ bounds
MaxStages == 2
MaxBuilds == 2
MaxIgnores == 3

\* --------------------------------------------------------------- constants
Marker == "---"
Ws == " "
Null == <<"null">>

MdFile == "a.md"
TxtFile == "b.txt"
HtmlFile == "a.html"
MyFile == "myFile"
StaleFile == "blah.foo"
Paths == {MdFile, TxtFile, HtmlFile, MyFile, StaleFile}

EmptyMap == [k \in {} |-> <<>>]

\* ------------------------------------------------- im::HashMap operations
UpdateKeepOld(m, k, v) ==
  [x \in DOMAIN m \cup {k} |-> IF x \in DOMAIN m THEN m[x] ELSE v]

\* HashMap::update / HashMap::insert: the new value replaces an old one.
Update(m, k, v) ==
  [x \in DOMAIN m \cup {k} |-> IF x = k THEN v ELSE m[x]]

UnionRightBiased(a, b) ==
  [k \in DOMAIN a \cup DOMAIN b |-> IF k \in DOMAIN b THEN b[k] ELSE a[k]]

\* a.union(b): the values of a, the receiver, are kept for shared keys.
Union(a, b) ==
  [k \in DOMAIN a \cup DOMAIN b |-> IF k \in DOMAIN a THEN a[k] ELSE b[k]]

\* a.difference(b) of im::HashMap is the symmetric difference: the keys
\* that occur in both maps are discarded, every other key of either map is
\* kept with its value.
Difference(a, b) ==
  [k \in (DOMAIN a \ DOMAIN b) \cup (DOMAIN b \ DOMAIN a) |->
     IF k \in DOMAIN a THEN a[k] ELSE b[k]]

\* ------------------------------------------------------------------ ShFile
ShFile(fm, content) == [frontmatter |-> fm, content |-> content]

ShFileEmpty == ShFile(Null, <<>>)

\* -------------------------------------------------------------- frontmatter
RECURSIVE TrimStart(_)
TrimStart(s) ==
  IF s # <<>> /\ Head(s) = Ws THEN TrimStart(Tail(s)) ELSE s

RECURSIVE TrimEnd(_)
TrimEnd(s) ==
  IF s # <<>> /\ s[Len(s)] = Ws THEN TrimEnd(SubSeq(s, 1, Len(s) - 1)) ELSE s

Trim(s) == TrimEnd(TrimStart(s))

\* str::find: the index (from 0) of the first Marker of s, -1 for None.
RECURSIVE Find(_, _)
Find(s, from) ==
  IF from > Len(s) THEN -1
  ELSE IF s[from] = Marker THEN from - 1
  ELSE Find(s, from + 1)

\* lexer: ok is FALSE where find(..).unwrap() panics.
Lexer(text) ==
  IF text # <<>> /\ Head(text) = Marker
  THEN LET slice_after_marker == Tail(text)
           marker_end == Find(slice_after_marker, 1)
       IN IF marker_end < 0
          THEN [ok |-> FALSE, matter |-> <<>>, content |-> <<>>]
          ELSE [ok |-> TRUE,
                matter |-> Trim(SubSeq(text, 2, marker_end + 1)),
                content |-> Trim(SubSeq(text, marker_end + 3, Len(text)))]
  ELSE [ok |-> TRUE, matter |-> <<>>, content |-> text]

\* to_yaml: no document for an empty matter, one document otherwise.
ToYaml(matter) == IF Len(matter) = 0 THEN <<>> ELSE <<matter>>

\* ------------------------------------------------------------------- globs
Extension(p) ==
  CASE p = MdFile -> "md"
    [] p = StaleFile -> "foo"
    [] p = TxtFile -> "txt"
    [] p = HtmlFile -> "html"
    [] OTHER -> "none"

Patterns == {MdFile, TxtFile, "*.md"}

\* Glob::new(item) matched against a relative path.
GlobMatches(item, p) ==
  IF item = "*.md" THEN Extension(p) = "md" ELSE item = p

\* GlobSet::is_match
IsMatch(ignores, p) == \E i \in 1..Len(ignores) : GlobMatches(ignores[i], p)

\* ---------------------------------------------------------------- read_dir
ReadFile(text, frontmatter) ==
  IF frontmatter
  THEN LET l == Lexer(text)
       IN [ok |-> l.ok, file |-> ShFile(ToYaml(l.matter), l.content)]
  ELSE [ok |-> TRUE, file |-> ShFile(Null, text)]

ReadDirOk(tree, frontmatter, ignores) ==
  \A p \in DOMAIN tree : IsMatch(ignores, p) \/ ReadFile(tree[p], frontmatter).ok

ReadDir(tree, frontmatter, ignores) ==
  [p \in {q \in DOMAIN tree : ~IsMatch(ignores, q)} |->
     ReadFile(tree[p], frontmatter).file]

\* ------------------------------------------------------------------ plugins
Hello == <<"hello">>

\* markdown_to_html
MarkdownToHtml(content) == <<"<p>">> \o content

\* p.set_extension("html")
SetExtension(p) == IF p = MdFile THEN HtmlFile ELSE p

RewriteStage == [kind |-> "rewrite", path |-> ""]
AddStage == [kind |-> "add", path |-> MyFile]
DeleteStage(p) == [kind |-> "delete", path |-> p]
MarkdownStage == [kind |-> "markdown", path |-> ""]
Meta1Stage == [kind |-> "meta1", path |-> ""]
Meta2Stage == [kind |-> "meta2", path |-> ""]

DeletePaths == {MdFile, MyFile}

Stages ==
  {RewriteStage, AddStage, MarkdownStage, Meta1Stage, Meta2Stage}
    \cup {DeleteStage(p) : p \in DeletePaths}

\* mw of write_works: every file gets the content "hello".
Rewrite(i) ==
  LET update_hash ==
        [k \in DOMAIN i.files |-> ShFile(i.files[k].frontmatter, Hello)]
  IN [i EXCEPT !.files = Union(update_hash, i.files)]

\* the plugin of the crate documentation
Add(i) == [i EXCEPT !.files = Update(i.files, MyFile, ShFileEmpty)]

\* the plugin of the documentation of ShFile::empty
Delete(i, p) ==
  LET deletion_hash == Update(EmptyMap, p, ShFileEmpty)
  IN [i EXCEPT !.files = Difference(deletion_hash, i.files)]

\* shtola_markdown::plugin; extension().unwrap() panics on a path that has
\* no extension.
MarkdownOk(i) == \A p \in DOMAIN i.files : Extension(p) # "none"

Markdown(i) ==
  LET markdown_files == {p \in DOMAIN i.files : Extension(p) = "md"}
      update_hash ==
        [q \in {SetExtension(p) : p \in markdown_files} |->
           LET p == CHOOSE x \in markdown_files : SetExtension(x) = q
           IN ShFile(i.files[p].frontmatter, MarkdownToHtml(i.files[p].content))]
      removal_hash == [p \in markdown_files |-> ShFileEmpty]
  IN [i EXCEPT !.files = Difference(Union(update_hash, i.files), removal_hash)]

\* mw1 and mw2 of metadata_works
Meta1(i) ==
  [i EXCEPT !.metadata =
     Update(Update(i.metadata, "test", "foo"), "test2", "bar-baz")]

Meta2(i) == [i EXCEPT !.metadata = Update(i.metadata, "test", "abc")]

\* func(acc): ok is FALSE where the stage panics.
StageOk(st, i) == st.kind = "markdown" => MarkdownOk(i)

ApplyStage(st, i) ==
  CASE st.kind = "rewrite" -> Rewrite(i)
    [] st.kind = "add" -> Add(i)
    [] st.kind = "delete" -> Delete(i, st.path)
    [] st.kind = "markdown" -> Markdown(i)
    [] st.kind = "meta1" -> Meta1(i)
    [] OTHER -> Meta2(i)

\* -------------------------------------------------------------------- state
VARIABLES
  fns,         \* Ware::fns, the registered stages
  ir,          \* Shtola::ir
  source,      \* the files of the source directory
  destExists,  \* whether the destination directory exists
  dest,        \* the files of the destination directory
  pc,          \* where build stands
  acc,         \* the accumulator of Ware::run, then result_ir
  idx,         \* how many stages run has called
  err,         \* what ended the build
  builds,      \* the number of build calls so far
  calls,       \* history: the argument of every register call, in call order
  applied,     \* history: the stages called by this build, in call order
  written,     \* history: the paths written by this build
  atStart,     \* history: the destination directory when build was called
  phases,      \* history: the phases this build entered
  incoming,    \* history: the IR handed to the stage called last
  appended,    \* history: every pattern handed to ignores
  prev,        \* history: the last build that returned Ok, and its result
  lhs,         \* the receiver of a map operation
  rhs,         \* the argument of a map operation
  out          \* the operation applied and the map it returned

vars ==
  <<fns, ir, source, destExists, dest, pc, acc, idx, err, builds, calls,
    applied, written, atStart, phases, incoming, appended, prev, lhs, rhs,
    out>>

maps == <<lhs, rhs, out>>

\* Config::default without the two paths
ConfigDefault == [ignores |-> <<>>, clean |-> FALSE, frontmatter |-> TRUE]

\* the IR of Shtola::new
NewIr == [files |-> EmptyMap, config |-> ConfigDefault, metadata |-> EmptyMap]

SourceMatter ==
  (MdFile :> <<Marker, "k", Marker, Ws, "x">>) @@ (TxtFile :> <<"y">>)

SourceUnclosed == (MdFile :> <<Marker, "k">>)

Sources == {SourceMatter, SourceUnclosed}

NoError == [kind |-> "none", phase |-> "none"]

NoDir == [exists |-> FALSE, files |-> EmptyMap]

NoBuild ==
  [ok |-> FALSE, fns |-> <<>>, config |-> ConfigDefault, result |-> NewIr]

NoOp == [op |-> "none", map |-> EmptyMap]

InitProgram ==
  /\ fns = <<>>
  /\ ir = NewIr
  /\ source \in Sources
  /\ destExists = FALSE
  /\ dest = EmptyMap
  /\ pc = "idle"
  /\ acc = NewIr
  /\ idx = 0
  /\ err = NoError
  /\ builds = 0
  /\ calls = <<>>
  /\ applied = <<>>
  /\ written = {}
  /\ atStart = NoDir
  /\ phases = <<>>
  /\ incoming = NewIr
  /\ appended = {}
  /\ prev = NoBuild

Init ==
  /\ InitProgram
  /\ lhs = EmptyMap
  /\ rhs = EmptyMap
  /\ out = NoOp

\* ------------------------------------------------------------------ setters
WrapFront(list, func) == <<func>> \o list

\* Ware::wrap: self.fns.push(func)
Wrap(list, func) == Append(list, func)

\* Shtola::register
Register(func) ==
  /\ pc = "idle"
  /\ Len(fns) < MaxStages
  /\ fns' = Wrap(fns, func)
  /\ calls' = Append(calls, func)
  /\ UNCHANGED <<ir, source, destExists, dest, pc, acc, idx, err, builds,
                 applied, written, atStart, phases, incoming, appended, prev,
                 maps>>

\* Vec::dedup: of every run of consecutive equal elements the first is kept.
RECURSIVE Dedup(_)
Dedup(v) ==
  IF Len(v) < 2 THEN v
  ELSE IF v[1] = v[2] THEN Dedup(Tail(v))
  ELSE <<v[1]>> \o Dedup(Tail(v))

\* Shtola::ignores: append, then dedup.
Ignores(vec) ==
  /\ pc = "idle"
  /\ Len(ir.config.ignores) + Len(vec) <= MaxIgnores
  /\ ir' = [ir EXCEPT !.config.ignores = Dedup(ir.config.ignores \o vec)]
  /\ appended' = appended \cup {vec[i] : i \in 1..Len(vec)}
  /\ UNCHANGED <<fns, source, destExists, dest, pc, acc, idx, err, builds,
                 calls, applied, written, atStart, phases, incoming, prev,
                 maps>>

\* Shtola::clean
Clean(b) ==
  /\ pc = "idle"
  /\ ir' = [ir EXCEPT !.config.clean = b]
  /\ UNCHANGED <<fns, source, destExists, dest, pc, acc, idx, err, builds,
                 calls, applied, written, atStart, phases, incoming, appended,
                 prev, maps>>

\* Shtola::frontmatter
Frontmatter(b) ==
  /\ pc = "idle"
  /\ ir' = [ir EXCEPT !.config.frontmatter = b]
  /\ UNCHANGED <<fns, source, destExists, dest, pc, acc, idx, err, builds,
                 calls, applied, written, atStart, phases, incoming, appended,
                 prev, maps>>

\* Shtola::destination: create_dir_all makes the directory if it is missing.
Destination ==
  /\ pc = "idle"
  /\ destExists' = TRUE
  /\ UNCHANGED <<fns, ir, source, dest, pc, acc, idx, err, builds, calls,
                 applied, written, atStart, phases, incoming, appended, prev,
                 maps>>

\* ------------------------------------------------------------- environment
Old == <<"old">>

\* The caller writes a file into the destination directory, as clean_works
\* does before it builds.
WriteStale(p) ==
  /\ pc = "idle"
  /\ destExists
  /\ dest' = Update(dest, p, Old)
  /\ UNCHANGED <<fns, ir, source, destExists, pc, acc, idx, err, builds,
                 calls, applied, written, atStart, phases, incoming, appended,
                 prev, maps>>

\* The destination directory is removed between two calls.
RemoveDest ==
  /\ pc = "idle"
  /\ destExists
  /\ destExists' = FALSE
  /\ dest' = EmptyMap
  /\ UNCHANGED <<fns, ir, source, pc, acc, idx, err, builds, calls, applied,
                 written, atStart, phases, incoming, appended, prev, maps>>

\* -------------------------------------------------------------------- build
\* The error build returns is the first one raised.
FirstErr(old, kind, phase) ==
  IF old.kind = "none" /\ kind # "none"
  THEN [kind |-> kind, phase |-> phase]
  ELSE old

TryIgnored(e, next) == next

\* The ? operator: an Err returns from build at once.
Try(e, next) == IF e # "none" THEN "failed" ELSE next

\* fs::remove_dir_all fails on a directory that does not exist.
RemoveDirAll(exists, fault) ==
  IF ~exists THEN "NotFound" ELSE IF fault = "remove" THEN "io" ELSE "none"

CleanedKeepsFiles(files) == files

\* The files of the destination after remove_dir_all and create_dir_all.
Cleaned(files) == EmptyMap

CleanFaults == {"none", "remove", "recreate"}

\* build, lines 129-139: the clean step.
BuildClean ==
  /\ pc = "idle"
  /\ builds < MaxBuilds
  /\ builds' = builds + 1
  /\ atStart' = [exists |-> destExists, files |-> dest]
  /\ IF ~ir.config.clean
     THEN /\ pc' = "read"
          /\ phases' = <<>>
          /\ UNCHANGED <<err, destExists, dest>>
     ELSE /\ phases' = <<"clean">>
          /\ \E fault \in CleanFaults :
               LET e == RemoveDirAll(destExists, fault)
               IN IF e # "none"
                  THEN /\ pc' = Try(e, "read")
                       /\ err' = FirstErr(err, e, "clean")
                       /\ UNCHANGED <<destExists, dest>>
                  ELSE IF fault = "recreate"
                  THEN /\ pc' = "failed"
                       /\ err' = FirstErr(err, "panic", "clean")
                       /\ destExists' = FALSE
                       /\ dest' = EmptyMap
                  ELSE /\ pc' = "read"
                       /\ destExists' = TRUE
                       /\ dest' = Cleaned(dest)
                       /\ UNCHANGED err
  /\ UNCHANGED <<fns, ir, source, acc, idx, calls, applied, written, incoming,
                 appended, prev, maps>>

\* build, lines 141-152: read_dir, self.ir.files = files, and the clone that
\* is handed to run.
BuildRead ==
  /\ pc = "read"
  /\ phases' = Append(phases, "read")
  /\ \E fault \in BOOLEAN :
       LET c == ir.config
           e == IF fault THEN "io" ELSE "none"
       IN IF ~fault /\ ~ReadDirOk(source, c.frontmatter, c.ignores)
          THEN /\ pc' = "failed"
               /\ err' = FirstErr(err, "panic", "read")
               /\ UNCHANGED <<ir, acc>>
          ELSE /\ pc' = Try(e, "execute")
               /\ err' = FirstErr(err, e, "read")
               /\ IF e = "none"
                  THEN /\ ir' = [ir EXCEPT
                                   !.files = ReadDir(source, c.frontmatter, c.ignores)]
                       /\ acc' = ir'
                  ELSE UNCHANGED <<ir, acc>>
  /\ UNCHANGED <<fns, source, destExists, dest, idx, builds, calls, applied,
                 written, atStart, incoming, appended, prev, maps>>

\* Ware::run: one step of the fold, func(acc).
BuildStage ==
  /\ pc = "execute"
  /\ idx < Len(fns)
  /\ phases' = Append(phases, "execute")
  /\ applied' = Append(applied, fns[idx + 1])
  /\ incoming' = acc
  /\ IF StageOk(fns[idx + 1], acc)
     THEN /\ acc' = ApplyStage(fns[idx + 1], acc)
          /\ idx' = idx + 1
          /\ UNCHANGED <<pc, err>>
     ELSE /\ pc' = "failed"
          /\ err' = FirstErr(err, "panic", "execute")
          /\ UNCHANGED <<acc, idx>>
  /\ UNCHANGED <<fns, ir, source, destExists, dest, builds, calls, written,
                 atStart, appended, prev, maps>>

SelfIrTakesResult(self_ir, result_ir) == result_ir

\* self.ware.run(self.ir.clone()): run is handed a clone, and build assigns
\* nothing to self.ir after it.
SelfIrAfterRun(self_ir, result_ir) == self_ir

WriteDirSkipsEmpty(files, old, done) ==
  [p \in DOMAIN old \cup {q \in done : files[q].content # <<>>} |->
     IF p \in done /\ files[p].content # <<>> THEN files[p].content ELSE old[p]]

\* write_dir: the destination after the files at the paths `done` were
\* written; File::create truncates a file that exists.
WriteDir(files, old, done) ==
  [p \in DOMAIN old \cup done |->
     IF p \in done THEN files[p].content ELSE old[p]]

\* build, lines 154-158: run has returned result_ir; write_dir.  An error
\* leaves the files written before it.
BuildWrite ==
  /\ pc = "execute"
  /\ idx = Len(fns)
  /\ phases' = Append(phases, "write")
  /\ ir' = SelfIrAfterRun(ir, acc)
  /\ \E fault \in BOOLEAN :
       \E done \in SUBSET DOMAIN acc.files :
         LET e == IF fault THEN "io" ELSE "none"
         IN /\ fault => done # DOMAIN acc.files
            /\ ~fault => done = DOMAIN acc.files
            /\ dest' = WriteDir(acc.files, dest, done)
            /\ written' = done
            /\ destExists' = (destExists \/ DOMAIN acc.files # {})
            /\ pc' = Try(e, "done")
            /\ err' = FirstErr(err, e, "write")
  /\ UNCHANGED <<fns, source, acc, idx, builds, calls, applied, atStart,
                 incoming, appended, prev, maps>>

\* build returns Ok(result_ir) or the error, and the caller goes on to its
\* next call; last is the history kept of the builds that returned Ok.
ReturnWith(last) ==
  /\ pc \in {"done", "failed"}
  /\ builds < MaxBuilds
  /\ pc' = "idle"
  /\ acc' = NewIr
  /\ idx' = 0
  /\ err' = NoError
  /\ applied' = <<>>
  /\ written' = {}
  /\ atStart' = NoDir
  /\ phases' = <<>>
  /\ incoming' = NewIr
  /\ prev' = last
  /\ UNCHANGED <<fns, ir, source, destExists, dest, builds, calls, appended,
                 maps>>

Return == ReturnWith(prev)

\* Return, with the build that returned Ok recorded in the history.
ReturnRecorded ==
  ReturnWith(IF pc = "done"
             THEN [ok |-> TRUE, fns |-> fns, config |-> ir.config,
                   result |-> acc]
             ELSE prev)

\* ------------------------------------------------------------ specifications
StalePaths == {StaleFile, TxtFile}

BuildIgnoreVecs == {<<TxtFile>>}

\* The pipeline: stages are registered and builds run, with the ignore list
\* and the front matter flag of Config::default.
Next ==
  \/ \E func \in Stages : Register(func)
  \/ \E b \in BOOLEAN : Clean(b)
  \/ Destination
  \/ \E p \in StalePaths : WriteStale(p)
  \/ RemoveDest
  \/ BuildClean
  \/ BuildRead
  \/ BuildStage
  \/ BuildWrite
  \/ Return

Spec == Init /\ [][Next]_vars

IgnoreVecs ==
  {<<>>} \cup {<<x>> : x \in Patterns} \cup {<<x, y>> : x, y \in Patterns}

\* The configuration surface: every setter, and builds of an empty chain.
NextConfig ==
  \/ \E vec \in IgnoreVecs : Ignores(vec)
  \/ \E b \in BOOLEAN : Clean(b)
  \/ \E b \in BOOLEAN : Frontmatter(b)
  \/ Destination
  \/ BuildClean
  \/ BuildRead
  \/ BuildWrite
  \/ Return

SpecConfig == Init /\ [][NextConfig]_vars

\* Consecutive builds of one Shtola value: the setters are called before the
\* first build only, the source directory never changes, and the destination
\* directory may be removed between two builds.
NextRebuild ==
  \/ \E func \in Stages : builds = 0 /\ Register(func)
  \/ \E vec \in BuildIgnoreVecs : builds = 0 /\ Ignores(vec)
  \/ \E b \in BOOLEAN : builds = 0 /\ Clean(b)
  \/ \E b \in BOOLEAN : builds = 0 /\ Frontmatter(b)
  \/ builds = 0 /\ Destination
  \/ RemoveDest
  \/ BuildClean
  \/ BuildRead
  \/ BuildStage
  \/ BuildWrite
  \/ ReturnRecorded

SpecRebuild == Init /\ [][NextRebuild]_vars

\* ------------------------------------------------------------- map algebra
program ==
  <<fns, ir, source, destExists, dest, pc, acc, idx, err, builds, calls,
    applied, written, atStart, phases, incoming, appended, prev>>

MapPaths == {MdFile, MyFile}

MapFiles == {ShFileEmpty, ShFile(Null, Hello)}

\* The file-state mappings over MapPaths and MapFiles.
Maps ==
  UNION {[d -> MapFiles] : d \in SUBSET MapPaths}

InitMaps ==
  /\ InitProgram
  /\ lhs \in Maps
  /\ rhs \in Maps
  /\ out = NoOp

\* lhs.union(rhs)
ApplyUnion ==
  /\ out' = [op |-> "union", map |-> Union(lhs, rhs)]
  /\ UNCHANGED <<lhs, rhs, program>>

\* lhs.difference(rhs)
ApplyDifference ==
  /\ out' = [op |-> "difference", map |-> Difference(lhs, rhs)]
  /\ UNCHANGED <<lhs, rhs, program>>

NextMaps == ApplyUnion \/ ApplyDifference

SpecMaps == InitMaps /\ [][NextMaps]_vars

\* ------------------------------------------------------------------- claims
\* g(f(x)): the stages of a call log composed in call order, the last one
\* outermost.
RECURSIVE Composed(_, _)
Composed(log, x) ==
  IF log = <<>> THEN x
  ELSE ApplyStage(log[Len(log)], Composed(SubSeq(log, 1, Len(log) - 1), x))

\* C1: the chain holds the registered stages in the order of the register
\* calls, none dropped, merged or moved; a build that succeeds has called
\* each of them once, in that order, and its result is their composition
\* applied to the IR that was read (the IR itself when none is registered).
C1_RunComposesInOrder ==
  /\ fns = calls
  /\ pc = "done" =>
       /\ applied = calls
       /\ acc = Composed(calls, ir)

C1_Witness ==
  /\ pc = "done"
  /\ calls = <<AddStage, RewriteStage>>
  /\ MyFile \in DOMAIN acc.files
  /\ acc.files[MyFile].content = Hello
  /\ acc # Composed(<<RewriteStage, AddStage>>, ir)

\* C2: union keeps every key of both maps, with the receiver's value for a
\* key of the receiver and the argument's value for every other key.
C2_UnionLeftBiased ==
  out.op = "union" =>
    /\ DOMAIN out.map = DOMAIN lhs \cup DOMAIN rhs
    /\ \A k \in DOMAIN lhs : out.map[k] = lhs[k]
    /\ \A k \in DOMAIN rhs \ DOMAIN lhs : out.map[k] = rhs[k]

C2_Witness ==
  /\ out.op = "union"
  /\ \E k \in DOMAIN lhs \cap DOMAIN rhs : lhs[k] # rhs[k] /\ out.map[k] = lhs[k]
  /\ DOMAIN rhs \ DOMAIN lhs # {}

\* C3: deletion_hash.difference(files) holds exactly the keys of files that
\* are not keys of deletion_hash, with the values of files, and no key of
\* deletion_hash.
C3_DifferenceRemovesKeys ==
  out.op = "difference" =>
    /\ DOMAIN out.map = DOMAIN rhs \ DOMAIN lhs
    /\ \A k \in DOMAIN rhs \ DOMAIN lhs : out.map[k] = rhs[k]

\* C4: when the last stage of the chain differences the deletion set {p}
\* against its incoming file-state, a successful build ends with no p in
\* the final IR, has written no p, and every other incoming path is in the
\* final IR with its incoming value.
C4_DeletionIdiom ==
  (pc = "done" /\ applied # <<>> /\ applied[Len(applied)].kind = "delete") =>
    LET p == applied[Len(applied)].path
    IN /\ p \notin DOMAIN acc.files
       /\ p \notin written
       /\ \A q \in DOMAIN incoming.files \ {p} :
            q \in DOMAIN acc.files /\ acc.files[q] = incoming.files[q]

\* C5: a file that was in the destination when build was called and is no
\* key of the final file-state is gone after a successful build with clean
\* set, and is there with the bytes it had after one with clean unset.
C5_CleanSemantics ==
  pc = "done" =>
    \A p \in DOMAIN atStart.files \ DOMAIN acc.files :
      IF ir.config.clean
      THEN p \notin DOMAIN dest
      ELSE p \in DOMAIN dest /\ dest[p] = atStart.files[p]

C5_Witness ==
  /\ pc = "done"
  /\ ir.config.clean
  /\ StaleFile \in DOMAIN atStart.files
  /\ StaleFile \notin DOMAIN dest
  /\ DOMAIN acc.files # {}

Rank(phase) ==
  CASE phase = "clean" -> 1
    [] phase = "read" -> 2
    [] phase = "execute" -> 3
    [] OTHER -> 4

\* C6: the phases of a build are entered in the order clean, read, execute,
\* write, each once (execute once per stage); once an error is raised the
\* build has failed in the phase that raised it and no later phase is
\* entered: after a failed clean nothing is read, after a failed read no
\* stage is called, after a failed read or a failed stage nothing is written.
C6_NoRecovery ==
  /\ \A i, j \in 1..Len(phases) :
       i < j => \/ Rank(phases[i]) < Rank(phases[j])
                \/ phases[i] = "execute" /\ phases[j] = "execute"
  /\ pc = "failed" <=> err.kind # "none"
  /\ err.kind # "none" =>
       /\ phases # <<>>
       /\ phases[Len(phases)] = err.phase
  /\ err.phase = "clean" => applied = <<>> /\ written = {}
  /\ err.phase = "read" => applied = <<>> /\ written = {}
  /\ err.phase = "execute" =>
       /\ written = {}
       /\ dest = (IF ir.config.clean THEN EmptyMap ELSE atStart.files)

C6_Witness ==
  /\ pc = "failed"
  /\ err.phase = "read"
  /\ fns # <<>>
  /\ applied = <<>>
  /\ phases = <<"clean", "read">>

\* The metadata keys a stage updates, with the values it gives them.
MetaWrites(st) ==
  CASE st.kind = "meta1" -> [k \in {"test", "test2"} |->
                               IF k = "test" THEN "foo" ELSE "bar-baz"]
    [] st.kind = "meta2" -> [k \in {"test"} |-> "abc"]
    [] OTHER -> EmptyMap

MetaKeys == {"test", "test2"}

\* C7: after a successful build every metadata key holds the value given
\* to it by the last registered stage that updates it, and a key that no
\* stage updates is not in the metadata.
C7_MetadataLastWriterWins ==
  pc = "done" =>
    \A k \in MetaKeys :
      LET writers == {i \in 1..Len(calls) : k \in DOMAIN MetaWrites(calls[i])}
      IN IF writers = {}
         THEN k \notin DOMAIN acc.metadata
         ELSE LET last == CHOOSE i \in writers : \A j \in writers : j <= i
              IN /\ k \in DOMAIN acc.metadata
                 /\ acc.metadata[k] = MetaWrites(calls[last])[k]

C7_Witness ==
  /\ pc = "done"
  /\ calls = <<Meta1Stage, Meta2Stage>>
  /\ acc.metadata["test"] = "abc"
  /\ acc.metadata["test2"] = "bar-baz"

\* C8: the ignore list holds no pattern twice, and holds every pattern that
\* was handed to ignores.
C8_IgnoresDeduplicated ==
  LET list == ir.config.ignores
  IN /\ \A i, j \in 1..Len(list) : i # j => list[i] # list[j]
     /\ appended = {list[i] : i \in 1..Len(list)}

\* C9: a build with clean set whose destination directory does not exist
\* when build is called does not fail for the missing directory: its clean
\* step raises no NotFound.
C9_CleanToleratesMissingDest ==
  (pc # "idle" /\ ir.config.clean /\ ~atStart.exists) =>
    ~(err.phase = "clean" /\ err.kind = "NotFound")

\* C10: after a successful build every key of the final file-state is a
\* file of the destination with the record's content, an empty content
\* included; the keys are the paths written, and every other path of the
\* destination is as the clean step left it.
C10_WriteExactness ==
  pc = "done" =>
    LET cleaned == IF ir.config.clean THEN EmptyMap ELSE atStart.files
    IN /\ \A p \in DOMAIN acc.files :
            p \in DOMAIN dest /\ dest[p] = acc.files[p].content
       /\ written = DOMAIN acc.files
       /\ \A p \in Paths \ DOMAIN acc.files :
            /\ p \in DOMAIN dest <=> p \in DOMAIN cleaned
            /\ p \in DOMAIN dest => dest[p] = cleaned[p]

C10_Witness ==
  /\ pc = "done"
  /\ MyFile \in DOMAIN acc.files
  /\ acc.files[MyFile].content = <<>>
  /\ dest[MyFile] = <<>>
  /\ StaleFile \in DOMAIN dest
  /\ TxtFile \in DOMAIN atStart.files
  /\ dest[TxtFile] # atStart.files[TxtFile]

\* C11: the IR handed to the first stage of every build holds the files the
\* reader has just produced from the source, the configuration, and empty
\* metadata; and with the source, the configuration and the stage list
\* unchanged, every build that succeeds returns the IR that the build that
\* succeeded before it returned.
C11_NoCrossBuildState ==
  /\ (pc = "execute" /\ applied = <<>>) =>
       /\ acc.files = ReadDir(source, ir.config.frontmatter, ir.config.ignores)
       /\ acc.metadata = EmptyMap
       /\ acc.config = ir.config
  /\ prev.ok => prev.fns = fns /\ prev.config = ir.config
  /\ (pc = "done" /\ prev.ok) => acc = prev.result

C11_Witness ==
  /\ pc = "done"
  /\ builds = 2
  /\ prev.ok
  /\ fns = <<Meta1Stage, AddStage>>
  /\ prev.result.metadata # EmptyMap
  /\ MyFile \in DOMAIN prev.result.files
  /\ acc = prev.result

====
